---------------------------- MODULE Spec2Model ----------------------------
(***************************************************************************)
(* IBAN validator (src/src/index.js): the class IBANValidator with its     *)
(* private country-length table, the helpers #prepareIban and #mod97 and   *)
(* the public operations validate, isValid, getCountryCode and format.     *)
(*                                                                         *)
(* A JavaScript string is a sequence of characters, each character a       *)
(* one-character TLA+ string (or a U+XXXX token for a non-ASCII one).      *)
(* A JavaScript value is a record with a tag.                              *)
(***************************************************************************)
EXTENDS Integers, Sequences, FiniteSets, TLC

VARIABLES
    countryLengths,  \* IBANValidator.#countryLengths
    caller,          \* who made the last call
    op,              \* the operation last called ("none" before any call)
    arg,             \* its argument
    ret,             \* what it returned (or that it threw)
    seen,            \* one earlier call, remembered with its result
    calls,           \* calls made since the remembered one (capped)
    numericString,   \* #mod97: its parameter
    i,               \* #mod97: the loop index
    remainder        \* #mod97: the running remainder

vars == <<countryLengths, caller, op, arg, ret, seen, calls,
          numericString, i, remainder>>

---------------------------------------------------------------------------
(* Bounds of the model *)

\* longest whitespace run inserted into a base string
MaxRun == 1
\* longest string enumerated exhaustively over SmallAlphabet
MaxLen == 4
\* longest digit string fed to the #mod97 loop
MaxDigits == 4
\* number of concurrent callers
NumCallers == 2
\* cap of the counter of calls made since the remembered call
MaxBetween == 2

---------------------------------------------------------------------------
(* Characters *)

DigitSeq == <<"0","1","2","3","4","5","6","7","8","9">>
UpperSeq == <<"A","B","C","D","E","F","G","H","I","J","K","L","M",
              "N","O","P","Q","R","S","T","U","V","W","X","Y","Z">>
LowerSeq == <<"a","b","c","d","e","f","g","h","i","j","k","l","m",
              "n","o","p","q","r","s","t","u","v","w","x","y","z">>

Range(f) == { f[k] : k \in DOMAIN f }

Digit == Range(DigitSeq)
Upper == Range(UpperSeq)
Lower == Range(LowerSeq)

\* The class \s of a JavaScript regular expression (the members used here):
\* space, line feed, no-break space.
Whitespace == {" ", "\n", "U+00A0"}

\* The characters "." does not match: line terminators.
LineTerminator == {"\n"}

\* Neither letters, digits nor whitespace: hyphen-minus, and the dotless i,
\* a lower-case letter outside ASCII whose upper case is the ASCII letter I.
Other == {"-", "U+0131"}

Char == Digit \cup Upper \cup Lower \cup Whitespace \cup Other

IndexOf(s, c) == CHOOSE k \in 1..Len(s) : s[k] = c

\* String.prototype.charCodeAt(0)
charCodeAt ==
    [c \in Char |->
        IF c \in Digit THEN 47 + IndexOf(DigitSeq, c)
        ELSE IF c \in Upper THEN 64 + IndexOf(UpperSeq, c)
        ELSE IF c \in Lower THEN 96 + IndexOf(LowerSeq, c)
        ELSE IF c = " " THEN 32
        ELSE IF c = "\n" THEN 10
        ELSE IF c = "U+00A0" THEN 160
        ELSE IF c = "-" THEN 45
        ELSE 305]

\* String.prototype.toUpperCase, one character
upperCaseOf ==
    [c \in Char |->
        IF c \in Lower THEN UpperSeq[IndexOf(LowerSeq, c)]
        ELSE IF c = "U+0131" THEN "I"
        ELSE c]

\* String.prototype.toUpperCase
toUpperCase(s) == [k \in 1..Len(s) |-> upperCaseOf[s[k]]]

\* replace(/\s+/, '') without the g flag: only the first run is removed
RemoveFirstWhitespaceRun(s) ==
    IF \A k \in 1..Len(s) : s[k] \notin Whitespace THEN s
    ELSE LET a == CHOOSE k \in 1..Len(s) :
                     /\ s[k] \in Whitespace
                     /\ \A j \in 1..(k-1) : s[j] \notin Whitespace
             b == CHOOSE k \in a..Len(s) :
                     /\ \A j \in a..k : s[j] \in Whitespace
                     /\ (k = Len(s) \/ s[k+1] \notin Whitespace)
         IN SubSeq(s, 1, a-1) \o SubSeq(s, b+1, Len(s))

\* no replace at all
KeepWhitespace(s) == s

IsNotWhitespace(c) == c \notin Whitespace

\* String.prototype.replace(/\s+/g, '')
RemoveWhitespace(s) == SelectSeq(s, IsNotWhitespace)

\* String.prototype.slice(from) and slice(from, to), indices not negative
Min(a, b) == IF a < b THEN a ELSE b

slice(s, from, to) == SubSeq(s, Min(from, Len(s)) + 1, Min(to, Len(s)))

sliceFrom(s, from) == slice(s, from, Len(s))

---------------------------------------------------------------------------
(* JavaScript values *)

Val(t, s, n, b) == [tag |-> t, str |-> s, num |-> n, bool |-> b]

Str(s)    == Val("string", s, 0, FALSE)
Num(n)    == Val("number", <<>>, n, FALSE)
Bool(b)   == Val("boolean", <<>>, 0, b)
Null      == Val("null", <<>>, 0, FALSE)
Undefined == Val("undefined", <<>>, 0, FALSE)
NaNValue  == Val("NaN", <<>>, 0, FALSE)
Object    == Val("object", <<>>, 0, FALSE)
\* a call that threw instead of returning
TypeError == Val("throw", <<>>, 0, FALSE)

\* typeof v
TypeOf(v) ==
    CASE v.tag = "null" -> "object"
      [] v.tag = "NaN"  -> "number"
      [] OTHER          -> v.tag

\* !v
Falsy(v) ==
    \/ v.tag \in {"null", "undefined", "NaN"}
    \/ v.tag = "string" /\ v.str = <<>>
    \/ v.tag = "number" /\ v.num = 0
    \/ v.tag = "boolean" /\ ~v.bool

\* !iban alone, as in the earlier version of the class
InvalidInputNoTypeCheck(iban) == Falsy(iban)

\* !iban || typeof iban !== 'string'

InvalidInput(iban) == Falsy(iban) \/ TypeOf(iban) # "string"

\* iban.replace(/\s+/g, '').toUpperCase(): a TypeError on a value with no
\* replace method
cleanIbanOf(iban) ==
    IF iban.tag = "string"
    THEN Str(toUpperCase(RemoveWhitespace(iban.str)))
    ELSE TypeError

---------------------------------------------------------------------------
(* The country-length table *)

CountryLengthsTable ==
       (<<"A","D">> :> 24) @@ (<<"A","E">> :> 23) @@ (<<"A","L">> :> 28) @@
       (<<"A","T">> :> 20) @@ (<<"A","Z">> :> 28) @@ (<<"B","A">> :> 20) @@
       (<<"B","E">> :> 16) @@ (<<"B","G">> :> 22) @@ (<<"B","H">> :> 22) @@
       (<<"B","R">> :> 29) @@ (<<"B","Y">> :> 28) @@ (<<"C","H">> :> 21) @@
       (<<"C","R">> :> 22) @@ (<<"C","Y">> :> 28) @@ (<<"C","Z">> :> 24) @@
       (<<"D","E">> :> 22) @@ (<<"D","K">> :> 18) @@ (<<"D","O">> :> 28) @@
       (<<"E","E">> :> 20) @@ (<<"E","G">> :> 29) @@ (<<"E","S">> :> 24) @@
       (<<"F","I">> :> 18) @@ (<<"F","O">> :> 18) @@ (<<"F","R">> :> 27) @@
       (<<"G","B">> :> 22) @@ (<<"G","E">> :> 22) @@ (<<"G","I">> :> 23) @@
       (<<"G","L">> :> 18) @@ (<<"G","R">> :> 27) @@ (<<"G","T">> :> 28) @@
       (<<"H","R">> :> 21) @@ (<<"H","U">> :> 28) @@ (<<"I","E">> :> 22) @@
       (<<"I","L">> :> 23) @@ (<<"I","S">> :> 26) @@ (<<"I","T">> :> 27) @@
       (<<"J","O">> :> 30) @@ (<<"K","W">> :> 30) @@ (<<"K","Z">> :> 20) @@
       (<<"L","B">> :> 28) @@ (<<"L","C">> :> 32) @@ (<<"L","I">> :> 21) @@
       (<<"L","T">> :> 20) @@ (<<"L","U">> :> 20) @@ (<<"L","V">> :> 21) @@
       (<<"M","C">> :> 27) @@ (<<"M","D">> :> 24) @@ (<<"M","E">> :> 22) @@
       (<<"M","K">> :> 19) @@ (<<"M","R">> :> 27) @@ (<<"M","T">> :> 31) @@
       (<<"M","U">> :> 30) @@ (<<"N","L">> :> 18) @@ (<<"N","O">> :> 15) @@
       (<<"P","K">> :> 24) @@ (<<"P","L">> :> 28) @@ (<<"P","S">> :> 29) @@
       (<<"P","T">> :> 25) @@ (<<"Q","A">> :> 29) @@ (<<"R","O">> :> 24) @@
       (<<"R","S">> :> 22) @@ (<<"S","A">> :> 24) @@ (<<"S","E">> :> 24) @@
       (<<"S","I">> :> 19) @@ (<<"S","K">> :> 24) @@ (<<"S","M">> :> 27) @@
       (<<"T","N">> :> 24) @@ (<<"T","R">> :> 26) @@ (<<"U","A">> :> 29) @@
       (<<"V","G">> :> 24) @@ (<<"X","K">> :> 20)

\* this.#countryLengths[countryCode], 0 standing for undefined: both make
\* !expectedLength true
expectedLengthOf(countryCode) ==
    IF countryCode \in DOMAIN countryLengths
    THEN countryLengths[countryCode]
    ELSE 0

---------------------------------------------------------------------------
(* #prepareIban and #mod97 *)

\* parseInt of a character that is no digit
NaN == -1

\* parseInt(numericString[i])
parseInt(c) == IF c \in Digit THEN charCodeAt[c] - 48 ELSE NaN

\* Number.prototype.toString for a natural number
RECURSIVE toString(_)
toString(n) ==
    IF n < 10 THEN <<DigitSeq[n + 1]>>
    ELSE toString(n \div 10) \o <<DigitSeq[(n % 10) + 1]>>

\* the map callback of #prepareIban
convertChar(char) ==
    LET code == charCodeAt[char]
    IN IF code >= 65 /\ code <= 90 THEN toString(code - 55) ELSE <<char>>

\* rearranged.split('').map(...).join('')
RECURSIVE mapJoin(_, _)
mapJoin(s, k) ==
    IF k > Len(s) THEN <<>> ELSE convertChar(s[k]) \o mapJoin(s, k + 1)

prepareIban(iban) == mapJoin(sliceFrom(iban, 4) \o slice(iban, 0, 4), 1)

\* the loop body without its % 97
Mod97StepNoReduce(r, c) ==
    IF r = NaN \/ parseInt(c) = NaN THEN NaN ELSE r * 10 + parseInt(c)

\* one pass of the loop body of #mod97; NaN stays NaN
Mod97Step(r, c) ==
    IF r = NaN \/ parseInt(c) = NaN THEN NaN ELSE (r * 10 + parseInt(c)) % 97

\* the loop of #mod97 run from index k with remainder r
RECURSIVE mod97From(_, _, _)
mod97From(s, k, r) ==
    IF k > Len(s) THEN r ELSE mod97From(s, k + 1, Mod97Step(r, s[k]))

\* the loop started at index 1 instead of 0
mod97SkipFirst(s) == mod97From(s, 2, 0)

mod97(s) == mod97From(s, 1, 0)

---------------------------------------------------------------------------
(* validate, isValid *)

\* /^[A-Z]{2}[0-9A-Z]{2,34}$/.test(s), the pattern of the earlier version
TestIbanPatternLoose(s) ==
    /\ Len(s) >= 4 /\ Len(s) <= 36
    /\ \A k \in 1..2 : s[k] \in Upper
    /\ \A k \in 3..Len(s) : s[k] \in Upper \cup Digit

\* /^[A-Z]{2}[0-9]{2}[A-Z0-9]+$/.test(s)
TestIbanPattern(s) ==
    /\ Len(s) >= 5
    /\ \A k \in 1..2 : s[k] \in Upper
    /\ \A k \in 3..4 : s[k] \in Digit
    /\ \A k \in 5..Len(s) : s[k] \in Upper \cup Digit

\* steps 3 to 6 of validate, on the cleaned string
checkClean(cleanIban) ==
    LET countryCode == slice(cleanIban, 0, 2)
        expectedLength == expectedLengthOf(countryCode)
    IN IF expectedLength = 0 THEN FALSE
       ELSE IF Len(cleanIban) # expectedLength THEN FALSE
       ELSE mod97(prepareIban(cleanIban)) = 1

validate(iban) ==
    IF InvalidInput(iban) THEN Bool(FALSE)
    ELSE LET cleanIban == cleanIbanOf(iban)
         IN IF cleanIban.tag = "throw" THEN cleanIban
            ELSE IF ~TestIbanPattern(cleanIban.str) THEN Bool(FALSE)
            ELSE Bool(checkClean(cleanIban.str))

isValid(iban) == validate(iban)

---------------------------------------------------------------------------
(* getCountryCode *)

\* the earlier version: iban.slice(0, 2).toUpperCase(), whitespace kept
getCountryCodeRaw(iban) ==
    IF InvalidInput(iban) \/ (iban.tag = "string" /\ Len(iban.str) < 2)
    THEN Null
    ELSE IF iban.tag # "string" THEN TypeError
    ELSE Str(toUpperCase(slice(iban.str, 0, 2)))

getCountryCode(iban) ==
    IF InvalidInput(iban) \/ (iban.tag = "string" /\ Len(iban.str) < 2)
    THEN Null
    ELSE LET cleanIban == cleanIbanOf(iban)
         IN IF cleanIban.tag = "throw" THEN cleanIban
            ELSE Str(slice(cleanIban.str, 0, 2))

---------------------------------------------------------------------------
(* format *)

\* how many characters the regular expression .{1,4} takes at index k:
\* up to four, none of them a line terminator
RECURSIVE takeLen(_, _, _)
takeLen(s, k, n) ==
    IF n = 4 \/ k + n > Len(s) \/ s[k + n] \in LineTerminator THEN n
    ELSE takeLen(s, k, n + 1)

\* String.prototype.match(/.{4}/g): a last group short of 4 is lost
RECURSIVE matchExactGroupsFrom(_, _)
matchExactGroupsFrom(s, k) ==
    IF k > Len(s) THEN <<>>
    ELSE IF takeLen(s, k, 0) < 4 THEN matchExactGroupsFrom(s, k + 1)
    ELSE <<SubSeq(s, k, k + 3)>> \o matchExactGroupsFrom(s, k + 4)

\* String.prototype.match(/.{1,4}/g); <<>> stands for null (no match)
RECURSIVE matchGroupsFrom(_, _)
matchGroupsFrom(s, k) ==
    IF k > Len(s) THEN <<>>
    ELSE IF takeLen(s, k, 0) = 0 THEN matchGroupsFrom(s, k + 1)
    ELSE <<SubSeq(s, k, k + takeLen(s, k, 0) - 1)>>
             \o matchGroupsFrom(s, k + takeLen(s, k, 0))

matchExactGroups(s) == matchExactGroupsFrom(s, 1)

matchGroups(s) == matchGroupsFrom(s, 1)

\* Array.prototype.join(' ')
RECURSIVE join(_)
join(groups) ==
    IF groups = <<>> THEN <<>>
    ELSE IF Len(groups) = 1 THEN groups[1]
    ELSE groups[1] \o <<" ">> \o join(Tail(groups))

format(iban) ==
    IF InvalidInput(iban) THEN Str(<<>>)
    ELSE LET cleanIban == cleanIbanOf(iban)
         IN IF cleanIban.tag = "throw" THEN cleanIban
            ELSE LET groups == matchGroups(cleanIban.str)
                 IN IF groups # <<>> /\ join(groups) # <<>>
                    THEN Str(join(groups))
                    ELSE cleanIban

---------------------------------------------------------------------------
(* The arguments callers pass *)

\* valid IBANs: the three of the test suite and others of the registry
ValidIbans == {
    <<"D","E","8","9","3","7","0","4","0","0","4","4","0","5","3","2","0","1","3","0","0","0">>,
    <<"G","B","8","2","W","E","S","T","1","2","3","4","5","6","9","8","7","6","5","4","3","2">>,
    <<"T","R","3","3","0","0","0","6","1","0","0","5","1","9","7","8","6","4","5","7","8","4","1","3","2","6">>,
    <<"N","O","9","3","8","6","0","1","1","1","1","7","9","4","7">>,
    <<"I","T","6","0","X","0","5","4","2","8","1","1","1","0","1","0","0","0","0","0","0","1","2","3","4","5","6">>,
    <<"L","C","5","5","H","E","M","M","0","0","0","1","0","0","0","1","0","0","1","2","0","0","1","2","0","0","0","2","3","0","1","5">> }

\* strings that pass all checks but one: an unknown country (XX, US), a
\* wrong length for the country (20 and 24 for DE), letters for check
\* digits, a failing checksum, no country code, no account number
NearIbans == {
    <<"X","X","4","6","3","7","0","4","0","0","4","4","0","5","3","2","0","1","3","0","0","0">>,
    <<"U","S","0","2","W","E","S","T","1","2","3","4","5","6","9","8","7","6","5","4","3","2">>,
    <<"D","E","8","6","3","7","0","4","0","0","4","4","0","5","3","2","0","1","3","0">>,
    <<"D","E","6","5","3","7","0","4","0","0","4","4","0","5","3","2","0","1","3","0","0","0","1","2">>,
    <<"D","E","C","Z","3","7","0","4","0","0","4","4","0","5","3","2","0","1","3","0","0","0">>,
    <<"D","E","8","9","3","7","0","4","0","0","4","4","0","5","3","2","0","1","3","0","0","1">>,
    <<"I","N","V","A","L","I","D">>,
    <<"I","N","V","A","L","I","D","I","B","A","N">>,
    <<"D","E","8","9">> }

BaseIbans == ValidIbans \cup NearIbans

\* s with a run of n characters w put after its first p characters
WithRun(s, p, w, n) ==
    SubSeq(s, 1, p) \o [k \in 1..n |-> w] \o SubSeq(s, p + 1, Len(s))

\* s with its character p replaced by c
ReplaceAt(s, p, c) == [s EXCEPT ![p] = c]

\* s without its character p
RemoveAt(s, p) == SubSeq(s, 1, p - 1) \o SubSeq(s, p + 1, Len(s))

\* s with one space after every g characters (the last group included)
Spaced(s, g) ==
    [k \in 1..(Len(s) + Len(s) \div g) |->
        IF k % (g + 1) = 0 THEN " " ELSE s[k - k \div (g + 1)]]

\* s in lower case (ASCII)
LowerCased(s) ==
    [k \in 1..Len(s) |->
        IF s[k] \in Upper THEN LowerSeq[IndexOf(UpperSeq, s[k])] ELSE s[k]]

SmallAlphabet == {"D", "e", "8", " ", "\n", "-"}

ShortStrings == UNION { [1..n -> SmallAlphabet] : n \in 0..MaxLen }

SpacedInputs ==
    UNION { { WithRun(b, p, " ", 1) : p \in 0..Len(b) } : b \in BaseIbans }
    \cup UNION { { WithRun(b, p, w, n) :
                     p \in {0, 1, 2, 4, Len(b)}, w \in Whitespace,
                     n \in 1..MaxRun } :
                 b \in BaseIbans }
    \cup { Spaced(b, g) : b \in BaseIbans, g \in 1..4 }

CaseInputs ==
    { LowerCased(b) : b \in BaseIbans }
    \cup UNION { { ReplaceAt(b, p, LowerCased(b)[p]) : p \in 1..Len(b) } :
                 b \in BaseIbans }
    \cup { WithRun(LowerCased(b), p, " ", 1) : b \in ValidIbans, p \in 0..2 }

CheckDigitInputs ==
    { ReplaceAt(ReplaceAt(b, 3, c), 4, d) :
        b \in ValidIbans, c \in Digit, d \in Digit }

ReplacedInputs ==
    { ReplaceAt(b, p, c) :
        b \in BaseIbans, p \in 1..4, c \in {"-", "U+0131", "7", "Q"} }

StringInputs ==
    BaseIbans \cup ShortStrings \cup SpacedInputs \cup CaseInputs
        \cup CheckDigitInputs \cup ReplacedInputs

NonStringInputs ==
    { Null, Undefined, NaNValue, Num(0), Num(42), Bool(FALSE), Bool(TRUE),
      Object }

Inputs == { Str(s) : s \in StringInputs } \cup NonStringInputs

\* what the concurrent callers pass
CallerInputs ==
    { Str(<<"D","E","8","9","3","7","0","4","0","0","4","4","0","5","3","2","0","1","3","0","0","0">>),
      Str(<<"X","X","4","6","3","7","0","4","0","0","4","4","0","5","3","2","0","1","3","0","0","0">>),
      Str(<<"X","X","4","6","3","7","0","4","0","0","4","4","0","5","3","2","0","1","3","0","0","0","1","2">>),
      Str(<<"n","o","9","3"," ","8","6","0","1"," ","1","1","1","7"," ","9","4","7">>),
      Str(<<"D"," ">>), Null }

Callers == 1..NumCallers

DigitStrings == UNION { [1..n -> Digit] : n \in 1..MaxDigits }

---------------------------------------------------------------------------
(* Calls *)

NoCall == [caller |-> 0, op |-> "none", arg |-> Undefined, ret |-> Undefined]

\* validate with a lookup that records the length of a country it does not
\* know: this.#countryLengths[countryCode] ||= cleanIban.length
CallValidateLearning(c, x) ==
    /\ caller' = c
    /\ op' = "validate"
    /\ arg' = x
    /\ ret' = validate(x)
    /\ countryLengths' =
          IF x.tag = "string" /\ TestIbanPattern(cleanIbanOf(x).str)
             /\ expectedLengthOf(slice(cleanIbanOf(x).str, 0, 2)) = 0
          THEN (slice(cleanIbanOf(x).str, 0, 2) :> Len(cleanIbanOf(x).str))
                   @@ countryLengths
          ELSE countryLengths

CallValidate(c, x) ==
    /\ caller' = c
    /\ op' = "validate"
    /\ arg' = x
    /\ ret' = validate(x)
    /\ UNCHANGED countryLengths

CallIsValid(c, x) ==
    /\ caller' = c
    /\ op' = "isValid"
    /\ arg' = x
    /\ ret' = isValid(x)
    /\ UNCHANGED countryLengths

CallGetCountryCode(c, x) ==
    /\ caller' = c
    /\ op' = "getCountryCode"
    /\ arg' = x
    /\ ret' = getCountryCode(x)
    /\ UNCHANGED countryLengths

CallFormat(c, x) ==
    /\ caller' = c
    /\ op' = "format"
    /\ arg' = x
    /\ ret' = format(x)
    /\ UNCHANGED countryLengths

\* the loop of #mod97, one iteration
Mod97Loop ==
    /\ i < Len(numericString)
    /\ remainder' = Mod97Step(remainder, numericString[i + 1])
    /\ i' = i + 1
    /\ UNCHANGED <<countryLengths, caller, op, arg, ret, seen, calls,
                   numericString>>

\* an observer remembers the call just made
Remember ==
    /\ seen = NoCall
    /\ op # "none"
    /\ seen' = [caller |-> caller, op |-> op, arg |-> arg, ret |-> ret]
    /\ UNCHANGED <<countryLengths, caller, op, arg, ret, calls,
                   numericString, i, remainder>>

---------------------------------------------------------------------------
(* Spec: one caller holds an argument and calls the operations on it *)

Init ==
    /\ countryLengths = CountryLengthsTable
    /\ caller = 1
    /\ op = "none"
    /\ arg \in Inputs
    /\ ret = Undefined
    /\ seen = NoCall
    /\ calls = 0
    /\ numericString = <<>>
    /\ i = 0
    /\ remainder = 0

Next ==
    \/ CallValidate(caller, arg)
          /\ UNCHANGED <<seen, calls, numericString, i, remainder>>
    \/ CallIsValid(caller, arg)
          /\ UNCHANGED <<seen, calls, numericString, i, remainder>>
    \/ CallGetCountryCode(caller, arg)
          /\ UNCHANGED <<seen, calls, numericString, i, remainder>>
    \/ CallFormat(caller, arg)
          /\ UNCHANGED <<seen, calls, numericString, i, remainder>>

Spec == Init /\ [][Next]_vars

(* SpecCallers: several callers, any arguments, in any order *)

InitCallers ==
    /\ countryLengths = CountryLengthsTable
    /\ caller = 0
    /\ op = "none"
    /\ arg = Undefined
    /\ ret = Undefined
    /\ seen = NoCall
    /\ calls = 0
    /\ numericString = <<>>
    /\ i = 0
    /\ remainder = 0

Counted ==
    /\ calls' = IF seen = NoCall THEN 0
                ELSE IF calls < MaxBetween THEN calls + 1 ELSE calls
    /\ UNCHANGED <<seen, numericString, i, remainder>>

NextCallers ==
    \/ \E c \in Callers, x \in CallerInputs : CallValidate(c, x) /\ Counted
    \/ \E c \in Callers, x \in CallerInputs : CallIsValid(c, x) /\ Counted
    \/ \E c \in Callers, x \in CallerInputs : CallGetCountryCode(c, x) /\ Counted
    \/ \E c \in Callers, x \in CallerInputs : CallFormat(c, x) /\ Counted
    \/ Remember

SpecCallers == InitCallers /\ [][NextCallers]_vars

(* SpecMod97: the loop of #mod97 on a digit string *)

InitMod97 ==
    /\ countryLengths = CountryLengthsTable
    /\ caller = 0
    /\ op = "none"
    /\ arg = Undefined
    /\ ret = Undefined
    /\ seen = NoCall
    /\ calls = 0
    /\ numericString \in DigitStrings
    /\ i = 0
    /\ remainder = 0

NextMod97 == Mod97Loop

SpecMod97 == InitMod97 /\ [][NextMod97]_vars

---------------------------------------------------------------------------
(* What the claims speak of, stated apart from the code's way of computing *)

\* the upper case of a character: the letter 32 code points below a
\* lower-case ASCII letter, I for the dotless i
UpperCased(c) ==
    IF c \in Lower
    THEN CHOOSE u \in Upper : charCodeAt[u] = charCodeAt[c] - 32
    ELSE IF c = "U+0131" THEN "I" ELSE c

\* N: s with all whitespace removed and letters upper-cased
RECURSIVE Normalized(_)
Normalized(s) ==
    IF s = <<>> THEN <<>>
    ELSE IF Head(s) \in Whitespace THEN Normalized(Tail(s))
    ELSE <<UpperCased(Head(s))>> \o Normalized(Tail(s))

\* the number of characters of s that are not whitespace
NonWhitespaceCount(s) == Cardinality({ k \in 1..Len(s) : s[k] \notin Whitespace })

\* s without its space characters
RECURSIVE WithoutSpaces(_)
WithoutSpaces(s) ==
    IF s = <<>> THEN <<>>
    ELSE IF Head(s) = " " THEN WithoutSpaces(Tail(s))
    ELSE <<Head(s)>> \o WithoutSpaces(Tail(s))

\* the value of a digit (0..9) or of a letter (A=10 ... Z=35)
ValueOf(c) ==
    IF c \in Digit THEN IndexOf(DigitSeq, c) - 1 ELSE IndexOf(UpperSeq, c) + 9

\* the remainder modulo 97 of the decimal number written by the values of
\* s[1..k], summed from the right: weight is 10^(digits to the right) mod 97
RECURSIVE RemainderFromRight(_, _, _, _)
RemainderFromRight(s, k, weight, acc) ==
    IF k = 0 THEN acc
    ELSE RemainderFromRight(
             s, k - 1,
             (weight * (IF ValueOf(s[k]) >= 10 THEN 100 ELSE 10)) % 97,
             (acc + ValueOf(s[k]) * weight) % 97)

\* conditions (1) to (4) of a valid IBAN, on the normalized string n
HasIbanShape(n) ==
    /\ Len(n) >= 5
    /\ n[1] \in Upper /\ n[2] \in Upper
    /\ n[3] \in Digit /\ n[4] \in Digit
    /\ \A k \in 5..Len(n) : n[k] \in Upper \/ n[k] \in Digit

HasKnownCountry(n) == SubSeq(n, 1, 2) \in DOMAIN CountryLengthsTable

HasCountryLength(n) == Len(n) = CountryLengthsTable[SubSeq(n, 1, 2)]

HasRemainderOne(n) ==
    LET moved == SubSeq(n, 5, Len(n)) \o SubSeq(n, 1, 4)
    IN RemainderFromRight(moved, Len(moved), 1, 0) = 1

IsValidIban(n) ==
    /\ HasIbanShape(n)
    /\ HasKnownCountry(n)
    /\ HasCountryLength(n)
    /\ HasRemainderOne(n)

\* the value of a digit string read as one decimal integer
RECURSIVE DecimalValue(_)
DecimalValue(d) ==
    IF d = <<>> THEN 0
    ELSE 10 * DecimalValue(SubSeq(d, 1, Len(d) - 1)) + ValueOf(d[Len(d)])

IsMissingOrNotString(v) == v.tag # "string" \/ v.str = <<>>

---------------------------------------------------------------------------
(* The claims *)

\* C1: for every string S, validate(S) is true if and only if N (S without
\* whitespace, upper-cased) has the IBAN shape, a country of the table, the
\* length the table gives for it and remainder 1 modulo 97; false otherwise.
C1_ValidateIffValidIban ==
    (op = "validate" /\ arg.tag = "string")
        => ret = Bool(IsValidIban(Normalized(arg.str)))

\* a valid IBAN typed in lower case with whitespace was accepted
C1_Witness ==
    /\ op = "validate"
    /\ ret = Bool(TRUE)
    /\ \E k \in 1..Len(arg.str) : arg.str[k] \in Whitespace
    /\ \E k \in 1..Len(arg.str) : arg.str[k] \in Lower

\* C2: validate(format(V)) is true for every V with validate(V) true, and
\* inserting or removing a whitespace character anywhere in a string does
\* not change the result of validate.
C2_WhitespaceInsensitive ==
    (op = "validate" /\ arg.tag = "string") =>
        /\ ret = Bool(TRUE) => validate(format(arg)) = Bool(TRUE)
        /\ \A p \in 0..Len(arg.str), w \in Whitespace :
               validate(Str(WithRun(arg.str, p, w, 1))) = ret
        /\ \A p \in 1..Len(arg.str) :
               arg.str[p] \in Whitespace
                   => validate(Str(RemoveAt(arg.str, p))) = ret

\* a valid IBAN without whitespace, which format changes
C2_Witness ==
    /\ op = "validate"
    /\ ret = Bool(TRUE)
    /\ \A k \in 1..Len(arg.str) : arg.str[k] \notin Whitespace
    /\ format(arg) # arg

\* C3: on every input value validate returns a boolean, format a string and
\* getCountryCode a string or null, none raises, and a missing or
\* non-string input gives exactly false, '' and null.
C3_TotalNoThrow ==
    /\ ret.tag # "throw"
    /\ op \in {"validate", "isValid"} =>
           /\ ret.tag = "boolean"
           /\ IsMissingOrNotString(arg) => ret = Bool(FALSE)
    /\ op = "format" =>
           /\ ret.tag = "string"
           /\ IsMissingOrNotString(arg) => ret = Str(<<>>)
    /\ op = "getCountryCode" =>
           /\ ret.tag \in {"string", "null"}
           /\ IsMissingOrNotString(arg) => ret = Null

\* format was called on a number and returned the empty string
C3_Witness == op = "format" /\ arg = Num(42) /\ ret = Str(<<>>)

\* C4: format(x) is N cut left to right into groups of 4 (the last of 1 to
\* 4) joined by one space: no leading, trailing or doubled space, and
\* without its spaces it is N; whether or not x is a valid IBAN.
C4_FormatGroupsOfFour ==
    (op = "format" /\ arg.tag = "string") =>
        LET n == Normalized(arg.str)
            out == ret.str
        IN /\ ret.tag = "string"
           /\ Len(out) = Len(n) + (IF n = <<>> THEN 0 ELSE (Len(n) - 1) \div 4)
           /\ \A k \in 1..Len(out) :
                  IF k % 5 = 0 THEN out[k] = " " ELSE out[k] = n[k - k \div 5]
           /\ out # <<>> => out[1] # " " /\ out[Len(out)] # " "
           /\ \A k \in 1..(Len(out) - 1) : ~(out[k] = " " /\ out[k + 1] = " ")
           /\ WithoutSpaces(out) = n

\* a string that fails validate was formatted, its last group short
C4_Witness ==
    /\ op = "format"
    /\ arg.tag = "string"
    /\ validate(arg) = Bool(FALSE)
    /\ Len(Normalized(arg.str)) > 4
    /\ Len(Normalized(arg.str)) % 4 = 3
    /\ \E k \in 1..Len(arg.str) : arg.str[k] \in Whitespace

\* C5: the result of getCountryCode is null or a string of exactly two
\* characters, and it is null for every string with fewer than two
\* non-whitespace characters.
C5_NullIfTooShort ==
    op = "getCountryCode" =>
        /\ ret = Null \/ (ret.tag = "string" /\ Len(ret.str) = 2)
        /\ (arg.tag = "string" /\ NonWhitespaceCount(arg.str) < 2)
               => ret = Null

\* C6: for every S with validate(S) true, getCountryCode(S) is the first
\* two characters of the normalized form of S, a key of the table.
C6_CountryCodeOfValid ==
    (op = "getCountryCode" /\ arg.tag = "string"
        /\ validate(arg) = Bool(TRUE)) =>
        /\ ret = Str(SubSeq(Normalized(arg.str), 1, 2))
        /\ ret.str \in DOMAIN CountryLengthsTable

\* the country code of a valid IBAN with leading whitespace was asked for
C6_Witness ==
    /\ op = "getCountryCode"
    /\ arg.tag = "string"
    /\ validate(arg) = Bool(TRUE)
    /\ arg.str[1] \in Whitespace
    /\ ret.tag = "string"

\* C7: for every V with validate(V) true, replacing one digit of its
\* normalized form by another digit, or one letter by another letter,
\* gives a string validate rejects.
C7_SingleCharacterMutation ==
    (op = "validate" /\ ret = Bool(TRUE)) =>
        LET n == Normalized(arg.str)
        IN \A p \in 1..Len(n) :
               \A c \in (IF n[p] \in Digit THEN Digit ELSE Upper) \ {n[p]} :
                   validate(Str(ReplaceAt(n, p, c))) = Bool(FALSE)

\* a valid IBAN with letters in its account number was accepted
C7_Witness ==
    /\ op = "validate"
    /\ ret = Bool(TRUE)
    /\ \E k \in 5..Len(arg.str) : arg.str[k] \in Upper

\* C8: no call changes the country-length table, and the same call gives
\* the same result whoever makes it and whatever calls ran before or
\* between.
C8_PureCalls ==
    /\ countryLengths = CountryLengthsTable
    /\ (seen.op = op /\ seen.arg = arg) => seen.ret = ret

\* a call was repeated by another caller after other calls, with the
\* result true
C8_Witness ==
    /\ seen.op = "validate"
    /\ op = "validate"
    /\ seen.arg = arg
    /\ seen.caller # caller
    /\ calls >= 2
    /\ ret = Bool(TRUE)

\* C9: the loop of #mod97 returns the digit string's decimal value modulo
\* 97; the remainder stays in 0..96 and remainder*10 + d is at most 969.
C9_Mod97Iterative ==
    /\ remainder \in 0..96
    /\ remainder = DecimalValue(SubSeq(numericString, 1, i)) % 97
    /\ i < Len(numericString)
           => remainder * 10 + parseInt(numericString[i + 1]) <= 969
    /\ i = Len(numericString)
           => mod97(numericString) = DecimalValue(numericString) % 97

\* the loop ended on a number above 969 with remainder 1
C9_Witness ==
    /\ i = Len(numericString)
    /\ Len(numericString) >= 4
    /\ DecimalValue(numericString) > 969
    /\ remainder = 1

\* C10: format(format(x)) = format(x) for every string x.
C10_FormatIdempotent ==
    (op = "format" /\ arg.tag = "string") => format(ret) = ret

\* a string with whitespace was formatted into several groups
C10_Witness ==
    /\ op = "format"
    /\ arg.tag = "string"
    /\ \E k \in 1..Len(arg.str) : arg.str[k] \in Whitespace
    /\ \E k \in 1..Len(ret.str) : ret.str[k] = " "
    /\ ret # arg

=============================================================================
